---------------------------- MODULE Spec2Model ----------------------------
(***************************************************************************)
(* Execution-context core of the smart-contract VM (src/vm/contexts.rs):   *)
(* AssetMap, GlobalContext, Environment and OwnedEnvironment.              *)
(***************************************************************************)
EXTENDS Integers, Sequences, FiniteSets, TLC

VARIABLES
    asset_maps,   \* GlobalContext.asset_maps : Vec<AssetMap>
    read_only,    \* GlobalContext.read_only  : Vec<bool>
    database,     \* GlobalContext.database   : ClarityDatabase
    opened_ro,    \* history: for each open frame, whether begin_read_only opened it
    call,         \* the call that has just returned: its inputs, pre-state and result
    eval_stack,   \* evaluator activations in progress (execute_apply / eval)
    am1, am2,     \* two free-standing AssetMaps (the receiver and the argument of commit_other)
    call_stack,   \* a CallStack : its stack (Vec) and its set (HashSet)
    contexts,     \* the live LocalContexts, in creation order; parent is an index, 0 for None
    history       \* history: the CallStack calls made so far (SpecCallStack); the transfers
                  \* logged since the outermost begin that are still alive (SpecLog)

vars == <<asset_maps, read_only, database, opened_ro, call, eval_stack, am1, am2, call_stack, contexts, history>>

(***************************************************************************)
(* Bounds of the model.                                                    *)
(***************************************************************************)
\* stand-in for i128::max_value(): the width of the token counters, scaled down
I128_MAX == 2
\* most frames open at once in a GlobalContext
MaxFrames == 3
\* most token entries plus NFT transfers held by am1 and am2 together
MaxEntries == 3

I128_MIN == 0 - I128_MAX - 1

NftValues == {1, 2}

(***************************************************************************)
(* Results and values.                                                     *)
(***************************************************************************)
NoValue == [tag |-> "None", committed |-> FALSE, data |-> 0]
IntValue(n) == [tag |-> "Int", committed |-> FALSE, data |-> n]
Response(c, d) == [tag |-> "Response", committed |-> c, data |-> d]

Ok(v) == [ok |-> TRUE, val |-> v, err |-> "none"]
Err(e) == [ok |-> FALSE, val |-> NoValue, err |-> e]

(***************************************************************************)
(* HashMap helpers.                                                        *)
(***************************************************************************)
EmptyMap == [x \in {} |-> 0]

\* HashMap::insert
MapInsert(m, k, v) == [x \in (DOMAIN m) \cup {k} |-> IF x = k THEN v ELSE m[x]]

\* the (principal, asset) keys of a two-level map
Entries(m) == UNION {{<<p, a>> : a \in DOMAIN m[p]} : p \in DOMAIN m}

\* the orders in which nested drain() loops can visit a two-level map:
\* principals in any order, and within one principal its assets in any order
DrainOrders(m) ==
    LET E == Entries(m)
        n == Cardinality(E)
    IN {s \in [1..n -> E] :
            /\ \A i, j \in 1..n : i # j => s[i] # s[j]
            /\ \A i, j, k \in 1..n :
                 (i < j /\ j < k /\ s[i][1] = s[k][1]) => s[j][1] = s[i][1]}

(***************************************************************************)
(* AssetMap                                                                *)
(***************************************************************************)
NewAssetMap == [token_map |-> EmptyMap, asset_map |-> EmptyMap]

\* i128::checked_add
checked_add(x, y) ==
    IF x + y > I128_MAX \/ x + y < I128_MIN
    THEN Err("ArithmeticOverflow")
    ELSE Ok(x + y)

\* mutant of get_next_amount: wrapping_add in place of checked_add
get_next_amount_wrapping(self, principal, asset, amount) ==
    LET current_amount ==
            IF principal \in DOMAIN self.token_map
            THEN IF asset \in DOMAIN self.token_map[principal]
                 THEN self.token_map[principal][asset]
                 ELSE 0
            ELSE 0
        sum == current_amount + amount
    IN IF sum > I128_MAX THEN Ok(sum - (I128_MAX - I128_MIN + 1)) ELSE Ok(sum)

get_next_amount(self, principal, asset, amount) ==
    LET current_amount ==
            IF principal \in DOMAIN self.token_map
            THEN IF asset \in DOMAIN self.token_map[principal]
                 THEN self.token_map[principal][asset]
                 ELSE 0
            ELSE 0
    IN checked_add(current_amount, amount)

\* mutant of add_asset_transfer: the list of a new asset is created empty
add_asset_transfer_empty_list(self, principal, asset, transfered) ==
    LET m1 == IF principal \notin DOMAIN self.asset_map
              THEN MapInsert(self.asset_map, principal, EmptyMap)
              ELSE self.asset_map
        principal_map == m1[principal]
        pm2 == IF asset \in DOMAIN principal_map
               THEN MapInsert(principal_map, asset, Append(principal_map[asset], transfered))
               ELSE MapInsert(principal_map, asset, <<>>)
    IN [self EXCEPT !.asset_map = MapInsert(m1, principal, pm2)]

\* mutant of add_asset_transfer: the value is put at the front of the list
add_asset_transfer_front(self, principal, asset, transfered) ==
    LET m1 == IF principal \notin DOMAIN self.asset_map
              THEN MapInsert(self.asset_map, principal, EmptyMap)
              ELSE self.asset_map
        principal_map == m1[principal]
        pm2 == IF asset \in DOMAIN principal_map
               THEN MapInsert(principal_map, asset, <<transfered>> \o principal_map[asset])
               ELSE MapInsert(principal_map, asset, <<transfered>>)
    IN [self EXCEPT !.asset_map = MapInsert(m1, principal, pm2)]

add_asset_transfer(self, principal, asset, transfered) ==
    LET m1 == IF principal \notin DOMAIN self.asset_map
              THEN MapInsert(self.asset_map, principal, EmptyMap)
              ELSE self.asset_map
        principal_map == m1[principal]
        pm2 == IF asset \in DOMAIN principal_map
               THEN MapInsert(principal_map, asset, Append(principal_map[asset], transfered))
               ELSE MapInsert(principal_map, asset, <<transfered>>)
    IN [self EXCEPT !.asset_map = MapInsert(m1, principal, pm2)]

\* returns [ok, err, map]: the result and the AssetMap after the call
add_token_transfer(self, principal, asset, amount) ==
    LET next_amount == get_next_amount(self, principal, asset, amount)
    IN IF ~next_amount.ok
       THEN [ok |-> FALSE, err |-> next_amount.err, map |-> self]
       ELSE LET m1 == IF principal \notin DOMAIN self.token_map
                      THEN MapInsert(self.token_map, principal, EmptyMap)
                      ELSE self.token_map
                pm2 == MapInsert(m1[principal], asset, next_amount.val)
            IN [ok |-> TRUE, err |-> "none",
                map |-> [self EXCEPT !.token_map = MapInsert(m1, principal, pm2)]]


\* first loop of commit_other (lines 142-147): the proposed token writes, or
\* the first overflow met in the order the entries of other are visited
RECURSIVE collect_to_add(_, _, _, _)
collect_to_add(self, other, order, i) ==
    IF i > Len(order)
    THEN [ok |-> TRUE, err |-> "none", to_add |-> <<>>]
    ELSE LET principal == order[i][1]
             asset == order[i][2]
             next_amount == get_next_amount(self, principal, asset,
                                            other.token_map[principal][asset])
         IN IF ~next_amount.ok
            THEN [ok |-> FALSE, err |-> next_amount.err, to_add |-> <<>>]
            ELSE LET rest == collect_to_add(self, other, order, i + 1)
                 IN IF rest.ok
                    THEN [rest EXCEPT !.to_add =
                              <<<<principal, asset, next_amount.val>>>> \o rest.to_add]
                    ELSE rest

\* mutant of land_transfers: the drained list lands in front of the list held
land_transfers_prepend(asset_map, principal, asset, transfers) ==
    LET m1 == IF principal \notin DOMAIN asset_map
              THEN MapInsert(asset_map, principal, EmptyMap)
              ELSE asset_map
        landing_map == m1[principal]
        lm2 == IF asset \in DOMAIN landing_map
               THEN MapInsert(landing_map, asset, transfers \o landing_map[asset])
               ELSE MapInsert(landing_map, asset, transfers)
    IN MapInsert(m1, principal, lm2)

\* landing of one drained NFT list (lines 152-163)
land_transfers(asset_map, principal, asset, transfers) ==
    LET m1 == IF principal \notin DOMAIN asset_map
              THEN MapInsert(asset_map, principal, EmptyMap)
              ELSE asset_map
        landing_map == m1[principal]
        lm2 == IF asset \in DOMAIN landing_map
               THEN MapInsert(landing_map, asset, landing_map[asset] \o transfers)
               ELSE MapInsert(landing_map, asset, transfers)
    IN MapInsert(m1, principal, lm2)

\* second loop of commit_other (lines 150-165)
RECURSIVE merge_assets(_, _, _, _)
merge_assets(asset_map, other_asset_map, order, i) ==
    IF i > Len(order)
    THEN asset_map
    ELSE merge_assets(
             land_transfers(asset_map, order[i][1], order[i][2],
                            other_asset_map[order[i][1]][order[i][2]]),
             other_asset_map, order, i + 1)

\* third loop of commit_other (lines 168-176)
RECURSIVE apply_to_add(_, _, _)
apply_to_add(token_map, to_add, i) ==
    IF i > Len(to_add)
    THEN token_map
    ELSE LET principal == to_add[i][1]
             m1 == IF principal \notin DOMAIN token_map
                   THEN MapInsert(token_map, principal, EmptyMap)
                   ELSE token_map
             pm2 == MapInsert(m1[principal], to_add[i][2], to_add[i][3])
         IN apply_to_add(MapInsert(m1, principal, pm2), to_add, i + 1)

\* mutant of commit_other: each token total is written as soon as it is
\* computed, so the writes made before an overflow stay
RECURSIVE write_as_checked(_, _, _, _)
write_as_checked(self, other, order, i) ==
    IF i > Len(order)
    THEN [ok |-> TRUE, err |-> "none", map |-> self]
    ELSE LET r == add_token_transfer(self, order[i][1], order[i][2],
                                     other.token_map[order[i][1]][order[i][2]])
         IN IF ~r.ok THEN r ELSE write_as_checked(r.map, other, order, i + 1)

commit_other_eager(self, other, token_order, asset_order) ==
    LET written == write_as_checked(self, other, token_order, 1)
    IN IF ~written.ok
       THEN written
       ELSE [written EXCEPT !.map.asset_map =
                 merge_assets(self.asset_map, other.asset_map, asset_order, 1)]

\* returns [ok, err, map]; token_order and asset_order are the orders in which
\* other.token_map.drain() and other.asset_map.drain() yield their entries
commit_other(self, other, token_order, asset_order) ==
    LET collected == collect_to_add(self, other, token_order, 1)
    IN IF ~collected.ok
       THEN [ok |-> FALSE, err |-> collected.err, map |-> self]
       ELSE [ok |-> TRUE, err |-> "none",
             map |-> [token_map |-> apply_to_add(self.token_map, collected.to_add, 1),
                      asset_map |-> merge_assets(self.asset_map, other.asset_map,
                                                 asset_order, 1)]]

(***************************************************************************)
(* ClarityDatabase (vm::database): a key-value store with nested           *)
(* transactions.  persisted is the committed store, open the stack of the  *)
(* open transactions' views, innermost last.                               *)
(***************************************************************************)
DbKeys == {"x"}
DbValues == {1}
ContractNames == {"c"}
EmptyStore == [data |-> [k \in DbKeys |-> 0], contracts |-> {}]
NewDatabase == [persisted |-> EmptyStore, open |-> <<>>]

Pop(s) == SubSeq(s, 1, Len(s) - 1)
Last(s) == s[Len(s)]

db_current(db) == IF db.open = <<>> THEN db.persisted ELSE Last(db.open)

db_begin(db) == [db EXCEPT !.open = Append(@, db_current(db))]

db_commit(db) ==
    LET top == Last(db.open)
        rest == Pop(db.open)
    IN IF rest = <<>>
       THEN [persisted |-> top, open |-> <<>>]
       ELSE [db EXCEPT !.open = Append(Pop(rest), top)]

db_roll_back(db) == [db EXCEPT !.open = Pop(@)]

db_set(db, store) ==
    IF db.open = <<>>
    THEN [db EXCEPT !.persisted = store]
    ELSE [db EXCEPT !.open = Append(Pop(@), store)]

db_put(db, k, v) == db_set(db, [db_current(db) EXCEPT !.data[k] = v])

db_insert_contract(db, name) ==
    db_set(db, [db_current(db) EXCEPT !.contracts = @ \cup {name}])

db_has_contract(db, name) == name \in db_current(db).contracts

(***************************************************************************)
(* GlobalContext.  An operator takes the context g (the three fields and   *)
(* the history opened_ro) and returns the context after the call, with the *)
(* result when the method has one.                                         *)
(***************************************************************************)
GC == [asset_maps |-> asset_maps, read_only |-> read_only,
       database |-> database, opened_ro |-> opened_ro]

NewGlobalContext == [asset_maps |-> <<>>, read_only |-> <<>>,
                     database |-> NewDatabase, opened_ro |-> <<>>]

None == [some |-> FALSE, map |-> NewAssetMap]
Some(m) == [some |-> TRUE, map |-> m]

is_top_level(g) == Len(g.asset_maps) = 0

\* Vec::last().cloned().unwrap_or(false)
is_read_only(g) == IF Len(g.read_only) = 0 THEN FALSE ELSE Last(g.read_only)

\* Vec::pop: None on an empty vector
VecPop(s) == IF Len(s) = 0 THEN s ELSE Pop(s)

\* mutant of begin: the new frame is writable whatever its parent is
begin_writable(g) ==
    [asset_maps |-> Append(g.asset_maps, NewAssetMap),
     database |-> db_begin(g.database),
     read_only |-> Append(g.read_only, FALSE),
     opened_ro |-> Append(g.opened_ro, FALSE)]

begin(g) ==
    [asset_maps |-> Append(g.asset_maps, NewAssetMap),
     database |-> db_begin(g.database),
     read_only |-> Append(g.read_only, is_read_only(g)),
     opened_ro |-> Append(g.opened_ro, FALSE)]

begin_read_only(g) ==
    [asset_maps |-> Append(g.asset_maps, NewAssetMap),
     database |-> db_begin(g.database),
     read_only |-> Append(g.read_only, TRUE),
     opened_ro |-> Append(g.opened_ro, TRUE)]

\* commit gone wrong, for the mutants below: on a failed merge the database
\* transaction is committed ("commit"), rolled back ("roll_back") or left open; a nested commit may hand
\* back the ledger
commit_variant(g, token_order, asset_order, db_on_error, nested_some) ==
    LET ro == VecPop(g.read_only)
        asset_map == Last(g.asset_maps)
        maps == Pop(g.asset_maps)
        hist == Pop(g.opened_ro)
    IN IF Len(maps) > 0
       THEN LET merged == commit_other(Last(maps), asset_map, token_order, asset_order)
            IN IF ~merged.ok
               THEN [g |-> [asset_maps |-> maps, read_only |-> ro, opened_ro |-> hist,
                            database |-> CASE db_on_error = "commit" -> db_commit(g.database)
                                           [] db_on_error = "roll_back" -> db_roll_back(g.database)
                                           [] OTHER -> g.database],
                     res |-> Err(merged.err)]
               ELSE [g |-> [asset_maps |-> Append(Pop(maps), merged.map),
                            read_only |-> ro, opened_ro |-> hist,
                            database |-> db_commit(g.database)],
                     res |-> Ok(IF nested_some THEN Some(asset_map) ELSE None)]
       ELSE [g |-> [asset_maps |-> maps, read_only |-> ro, opened_ro |-> hist,
                    database |-> db_commit(g.database)],
             res |-> Ok(Some(asset_map))]

\* mutant of commit: a failed merge returns without database.roll_back()
commit_leaves_db_open(g, token_order, asset_order) ==
    commit_variant(g, token_order, asset_order, "nothing", FALSE)

\* mutant of commit: the database transaction is committed although the merge failed
commit_db_commits_on_error(g, token_order, asset_order) ==
    commit_variant(g, token_order, asset_order, "commit", FALSE)

\* mutant of commit: the closed frame's ledger is handed back also from a nested commit
commit_always_some(g, token_order, asset_order) ==
    commit_variant(g, token_order, asset_order, "roll_back", TRUE)

\* requires a frame (asset_maps.pop().expect); returns [g, res], res.val the
\* Option<AssetMap>
commit(g, token_order, asset_order) ==
    LET ro == VecPop(g.read_only)
        asset_map == Last(g.asset_maps)
        maps == Pop(g.asset_maps)
        hist == Pop(g.opened_ro)
    IN IF Len(maps) > 0
       THEN LET merged == commit_other(Last(maps), asset_map, token_order, asset_order)
            IN IF ~merged.ok
               THEN [g |-> [asset_maps |-> maps, read_only |-> ro, opened_ro |-> hist,
                            database |-> db_roll_back(g.database)],
                     res |-> Err(merged.err)]
               ELSE [g |-> [asset_maps |-> Append(Pop(maps), merged.map),
                            read_only |-> ro, opened_ro |-> hist,
                            database |-> db_commit(g.database)],
                     res |-> Ok(None)]
       ELSE [g |-> [asset_maps |-> maps, read_only |-> ro, opened_ro |-> hist,
                    database |-> db_commit(g.database)],
             res |-> Ok(Some(asset_map))]

\* mutant of roll_back: the parent's ledger is dropped and the frame's is kept
roll_back_keeps_ledger(g) ==
    [asset_maps |-> IF Len(g.asset_maps) >= 2
                    THEN Append(SubSeq(g.asset_maps, 1, Len(g.asset_maps) - 2),
                                Last(g.asset_maps))
                    ELSE Pop(g.asset_maps),
     read_only |-> Pop(g.read_only),
     opened_ro |-> Pop(g.opened_ro),
     database |-> db_roll_back(g.database)]

\* requires a frame (assert!(popped.is_some()))
roll_back(g) ==
    [asset_maps |-> Pop(g.asset_maps),
     read_only |-> Pop(g.read_only),
     opened_ro |-> Pop(g.opened_ro),
     database |-> db_roll_back(g.database)]

\* mutant of handle_tx_result: a Response is committed whatever its flag says
handle_tx_result_always_commits(g, result, token_order, asset_order) ==
    IF result.ok
    THEN IF result.val.tag = "Response"
         THEN LET c == commit(g, token_order, asset_order)
              IN IF ~c.res.ok
                 THEN [g |-> c.g, res |-> Err(c.res.err)]
                 ELSE [g |-> c.g, res |-> Ok(result.val)]
         ELSE [g |-> g, res |-> Err("ContractMustReturnBoolean")]
    ELSE [g |-> roll_back(g), res |-> result]

\* returns [g, res]
handle_tx_result(g, result, token_order, asset_order) ==
    IF result.ok
    THEN IF result.val.tag = "Response"
         THEN IF result.val.committed
              THEN LET c == commit(g, token_order, asset_order)
                   IN IF ~c.res.ok
                      THEN [g |-> c.g, res |-> Err(c.res.err)]
                      ELSE [g |-> c.g, res |-> Ok(result.val)]
              ELSE [g |-> roll_back(g), res |-> Ok(result.val)]
         ELSE [g |-> g, res |-> Err("ContractMustReturnBoolean")]
    ELSE [g |-> roll_back(g), res |-> result]

\* requires a frame (asset_maps.last_mut().expect); returns [g, res]
log_token_transfer(g, sender, asset, transfered) ==
    LET r == add_token_transfer(Last(g.asset_maps), sender, asset, transfered)
    IN [g |-> [g EXCEPT !.asset_maps = Append(Pop(@), r.map)],
        res |-> IF r.ok THEN Ok(NoValue) ELSE Err(r.err)]

log_asset_transfer(g, sender, asset, transfered) ==
    [g EXCEPT !.asset_maps =
        Append(Pop(@), add_asset_transfer(Last(g.asset_maps), sender, asset, transfered))]

\* OwnedEnvironment::commit; returns [g, res], res.val the AssetMap
owned_commit(g, token_order, asset_order) ==
    LET c == commit(g, token_order, asset_order)
    IN IF ~c.res.ok
       THEN c
       ELSE IF c.res.val.some
            THEN [g |-> c.g, res |-> Ok(c.res.val.map)]
            ELSE [g |-> c.g, res |-> Err("FailedToConstructAssetTable")]

(***************************************************************************)
(* CallStack (contexts.rs 598-634): the Vec of the functions being         *)
(* executed and the HashSet of those inserted as tracked.                  *)
(***************************************************************************)
\* CallStack::new
NewCallStack == [stack |-> <<>>, set |-> {}]

\* CallStack::depth
cs_depth(cs) == Len(cs.stack)

\* CallStack::contains
cs_contains(cs, function) == function \in cs.set

\* CallStack::insert
cs_insert(cs, function, track) ==
    [stack |-> Append(cs.stack, function),
     set |-> IF track THEN cs.set \cup {function} ELSE cs.set]

\* CallStack::remove: the outcome is "ok", "err" or "panic"; stack.pop() has
\* run before the popped entry is compared with the argument
cs_remove(cs, function, tracked) ==
    IF cs.stack = <<>>
    THEN [cs |-> cs, outcome |-> "err"]
    ELSE LET removed == Last(cs.stack)
             popped == [cs EXCEPT !.stack = Pop(cs.stack)]
         IN IF removed # function
            THEN [cs |-> popped, outcome |-> "err"]
            ELSE IF tracked /\ function \notin cs.set
                 THEN [cs |-> popped, outcome |-> "panic"]
                 ELSE [cs |-> [popped EXCEPT !.set = IF tracked THEN @ \ {function} ELSE @],
                       outcome |-> "ok"]

(***************************************************************************)
(* LocalContext (contexts.rs 565-596).  The contexts alive are kept in     *)
(* creation order; a parent reference is the parent's position, 0 for      *)
(* Option::None.                                                           *)
(***************************************************************************)
MAX_CONTEXT_DEPTH == 256

NoVariable == [some |-> FALSE, value |-> 0]
SomeVariable(v) == [some |-> TRUE, value |-> v]

\* LocalContext::new
NewLocalContext == [depth |-> 0, parent |-> 0, variables |-> EmptyMap]

\* mutant of extend: the limit is tested with > instead of >=
extend_one_deeper(ctxs, i) ==
    IF ctxs[i].depth > MAX_CONTEXT_DEPTH
    THEN [ok |-> FALSE, err |-> "MaxContextDepthReached", ctx |-> NewLocalContext]
    ELSE [ok |-> TRUE, err |-> "none",
          ctx |-> [depth |-> ctxs[i].depth + 1, parent |-> i, variables |-> EmptyMap]]

\* mutant of extend: the child keeps its parent's depth
extend_same_depth(ctxs, i) ==
    IF ctxs[i].depth >= MAX_CONTEXT_DEPTH
    THEN [ok |-> FALSE, err |-> "MaxContextDepthReached", ctx |-> NewLocalContext]
    ELSE [ok |-> TRUE, err |-> "none",
          ctx |-> [depth |-> ctxs[i].depth, parent |-> i, variables |-> EmptyMap]]

\* LocalContext::extend, of the context at position i
extend(ctxs, i) ==
    IF ctxs[i].depth >= MAX_CONTEXT_DEPTH
    THEN [ok |-> FALSE, err |-> "MaxContextDepthReached", ctx |-> NewLocalContext]
    ELSE [ok |-> TRUE, err |-> "none",
          ctx |-> [depth |-> ctxs[i].depth + 1, parent |-> i, variables |-> EmptyMap]]

\* mutant of lookup_variable: the parent chain is searched before the context
RECURSIVE lookup_variable_outermost(_, _, _)
lookup_variable_outermost(ctxs, i, name) ==
    LET up == IF ctxs[i].parent = 0 THEN NoVariable
              ELSE lookup_variable_outermost(ctxs, ctxs[i].parent, name)
    IN IF up.some THEN up
       ELSE IF name \in DOMAIN ctxs[i].variables
            THEN SomeVariable(ctxs[i].variables[name])
            ELSE NoVariable

\* LocalContext::lookup_variable, of the context at position i
RECURSIVE lookup_variable(_, _, _)
lookup_variable(ctxs, i, name) ==
    IF name \in DOMAIN ctxs[i].variables
    THEN SomeVariable(ctxs[i].variables[name])
    ELSE IF ctxs[i].parent # 0
         THEN lookup_variable(ctxs, ctxs[i].parent, name)
         ELSE NoVariable

(***************************************************************************)
(* SpecMerge: two AssetMaps built by add_token_transfer and                *)
(* add_asset_transfer, and am1.commit_other(am2).                          *)
(***************************************************************************)
\* the (principal, asset) pairs the transfers are recorded for: a second asset
\* of a known principal, and a second principal
Slots == {<<"p1", "t1">>, <<"p1", "t2">>, <<"p2", "t1">>}
TokenAmounts == {1, I128_MAX}

RECURSIVE SumLen(_, _)
SumLen(m, E) ==
    IF E = {} THEN 0
    ELSE LET e == CHOOSE x \in E : TRUE
         IN Len(m[e[1]][e[2]]) + SumLen(m, E \ {e})

Size(am) == Cardinality(Entries(am.token_map))
            + SumLen(am.asset_map, Entries(am.asset_map))

NoCall == [op |-> "none"]
\* the evaluator is running: no call has just returned
Evaluating == [op |-> "evaluating"]

Init ==
    /\ asset_maps = <<>>
    /\ read_only = <<>>
    /\ database = NewDatabase
    /\ opened_ro = <<>>
    /\ eval_stack = <<>>
    /\ am1 = NewAssetMap
    /\ am2 = NewAssetMap
    /\ call_stack = NewCallStack
    /\ contexts = <<NewLocalContext>>
    /\ history = <<>>
    /\ call = NoCall

globals == <<asset_maps, read_only, database, opened_ro, eval_stack,
            call_stack, contexts, history>>

AmAddTokenTransfer(which, principal, asset, amount) ==
    LET self == IF which = 1 THEN am1 ELSE am2
        r == add_token_transfer(self, principal, asset, amount)
    IN /\ \/ <<principal, asset>> \in Entries(self.token_map)
          \/ Size(am1) + Size(am2) < MaxEntries
       /\ am1' = IF which = 1 THEN r.map ELSE am1
       /\ am2' = IF which = 2 THEN r.map ELSE am2
       /\ call' = [op |-> "add_token_transfer", which |-> which,
                   principal |-> principal, asset |-> asset, amount |-> amount,
                   pre_self |-> self, ok |-> r.ok, err |-> r.err]
       /\ UNCHANGED globals

AmAddAssetTransfer(which, principal, asset, transfered) ==
    LET self == IF which = 1 THEN am1 ELSE am2
        r == add_asset_transfer(self, principal, asset, transfered)
    IN /\ Size(am1) + Size(am2) < MaxEntries
       /\ am1' = IF which = 1 THEN r ELSE am1
       /\ am2' = IF which = 2 THEN r ELSE am2
       /\ call' = [op |-> "add_asset_transfer", which |-> which,
                   principal |-> principal, asset |-> asset, transfered |-> transfered,
                   pre_self |-> self, ok |-> TRUE, err |-> "none"]
       /\ UNCHANGED globals

\* am1.commit_other(am2): am2 is moved into the call and a new map takes its place
AmCommitOther(token_order, asset_order) ==
    LET r == commit_other(am1, am2, token_order, asset_order)
    IN /\ am1' = r.map
       /\ am2' = NewAssetMap
       /\ call' = [op |-> "commit_other", pre_self |-> am1, other |-> am2,
                   token_order |-> token_order, asset_order |-> asset_order,
                   ok |-> r.ok, err |-> r.err]
       /\ UNCHANGED globals

NextMerge ==
    \/ \E which \in {1, 2}, s \in Slots, n \in TokenAmounts :
         AmAddTokenTransfer(which, s[1], s[2], n)
    \/ \E which \in {1, 2}, s \in Slots, v \in NftValues :
         AmAddAssetTransfer(which, s[1], s[2], v)
    \/ \E to \in DrainOrders(am2.token_map), ao \in DrainOrders(am2.asset_map) :
         AmCommitOther(to, ao)

SpecMerge == Init /\ [][NextMerge]_vars


(***************************************************************************)
(* Spec: a GlobalContext driven through its public methods, and            *)
(* OwnedEnvironment::commit, by an arbitrary caller.                       *)
(***************************************************************************)
LogSlots == {<<"p1", "t1">>}
LogAmounts == {1, I128_MAX}

\* what a transaction body can hand to handle_tx_result
TxResults == {Err("RuntimeError"), Ok(IntValue(1)),
              Ok(Response(TRUE, 1)), Ok(Response(FALSE, 1))}

SetGC(g) ==
    /\ asset_maps' = g.asset_maps
    /\ read_only' = g.read_only
    /\ database' = g.database
    /\ opened_ro' = g.opened_ro

TopTokenOrders == DrainOrders(Last(asset_maps).token_map)
TopAssetOrders == DrainOrders(Last(asset_maps).asset_map)

others == <<eval_stack, am1, am2, call_stack, contexts, history>>

Begin ==
    /\ eval_stack = <<>>
    /\ Len(asset_maps) < MaxFrames
    /\ SetGC(begin(GC))
    /\ call' = [op |-> "begin", pre |-> GC, res |-> Ok(NoValue)]
    /\ UNCHANGED others

BeginReadOnly ==
    /\ eval_stack = <<>>
    /\ Len(asset_maps) < MaxFrames
    /\ SetGC(begin_read_only(GC))
    /\ call' = [op |-> "begin_read_only", pre |-> GC, res |-> Ok(NoValue)]
    /\ UNCHANGED others

Commit ==
    /\ eval_stack = <<>>
    /\ Len(asset_maps) > 0
    /\ \E to \in TopTokenOrders, ao \in TopAssetOrders :
         LET c == commit(GC, to, ao)
         IN /\ SetGC(c.g)
            /\ call' = [op |-> "commit", pre |-> GC, res |-> c.res]
    /\ UNCHANGED others

RollBack ==
    /\ eval_stack = <<>>
    /\ Len(asset_maps) > 0
    /\ SetGC(roll_back(GC))
    /\ call' = [op |-> "roll_back", pre |-> GC, res |-> Ok(NoValue)]
    /\ UNCHANGED others

HandleTxResult(result) ==
    /\ eval_stack = <<>>
    /\ Len(asset_maps) > 0
    /\ \E to \in TopTokenOrders, ao \in TopAssetOrders :
         LET h == handle_tx_result(GC, result, to, ao)
         IN /\ SetGC(h.g)
            /\ call' = [op |-> "handle_tx_result", arg |-> result, pre |-> GC,
                        res |-> h.res]
    /\ UNCHANGED others

OwnedCommit ==
    /\ eval_stack = <<>>
    /\ Len(asset_maps) > 0
    /\ \E to \in TopTokenOrders, ao \in TopAssetOrders :
         LET c == owned_commit(GC, to, ao)
         IN /\ SetGC(c.g)
            /\ call' = [op |-> "owned_commit", pre |-> GC, res |-> c.res]
    /\ UNCHANGED others

LogTokenTransfer(sender, asset, transfered) ==
    /\ eval_stack = <<>>
    /\ Len(asset_maps) > 0
    /\ LET l == log_token_transfer(GC, sender, asset, transfered)
       IN /\ SetGC(l.g)
          /\ call' = [op |-> "log_token_transfer", pre |-> GC, res |-> l.res]
    /\ UNCHANGED others

\* a write to the store through the public database field; components that
\* mutate persistent state refuse when is_read_only()
DbPut(k, v) ==
    /\ eval_stack = <<>>
    /\ ~is_read_only(GC)
    /\ db_current(database).data[k] # v
    /\ database' = db_put(database, k, v)
    /\ call' = [op |-> "db_put", pre |-> GC, res |-> Ok(NoValue)]
    /\ UNCHANGED <<asset_maps, read_only, opened_ro, eval_stack, am1, am2, call_stack, contexts, history>>

Next ==
    \/ Begin
    \/ BeginReadOnly
    \/ Commit
    \/ RollBack
    \/ \E result \in TxResults : HandleTxResult(result)
    \/ OwnedCommit
    \/ \E s \in LogSlots, n \in LogAmounts : LogTokenTransfer(s[1], s[2], n)
    \/ \E k \in DbKeys, v \in DbValues : DbPut(k, v)

Spec == Init /\ [][Next]_vars


(***************************************************************************)
(* Environment and OwnedEnvironment.  The evaluator (eval, execute_apply,  *)
(* Contract::initialize) is outside this file: a handler that calls it is  *)
(* split where the evaluator runs.  The first action runs the handler up   *)
(* to the call and pushes an activation on eval_stack; the evaluator's     *)
(* steps act on the GlobalContext; EvalReturn pops the activation and runs *)
(* the rest of the handler with the evaluator's result.                    *)
(***************************************************************************)
\* most evaluator activations nested in one another
MaxEval == 2

\* the functions of a contract: DefinedFunction::is_public / is_read_only
ContractFunctions ==
    [pub  |-> [is_public |-> TRUE,  is_read_only |-> FALSE],
     ro   |-> [is_public |-> TRUE,  is_read_only |-> TRUE],
     priv |-> [is_public |-> FALSE, is_read_only |-> FALSE]]

CalledContracts == ContractNames \cup {"missing"}
CalledFunctions == (DOMAIN ContractFunctions) \cup {"undefined"}

Panicked == call.op = "panic"

Activation(kind, make_read_only, pre, fn) ==
    [kind |-> kind, make_read_only |-> make_read_only, pre |-> pre, fn |-> fn]

\* Environment::initialize_contract with the outcome of Contract::initialize;
\* returns [g, res]
initialize_contract(g, contract_name, initialized) ==
    LET g1 == begin(g)
    IN IF initialized
       THEN LET g2 == [g1 EXCEPT !.database = db_insert_contract(@, contract_name)]
                c == commit(g2, <<>>, <<>>)
            IN IF ~c.res.ok
               THEN [g |-> c.g, res |-> Err(c.res.err)]
               ELSE [g |-> c.g, res |-> Ok(NoValue)]
       ELSE [g |-> roll_back(g1), res |-> Err("RuntimeError")]

\* Environment::execute_contract up to the call of execute_function_as_transaction:
\* the error it returns, or "none"
execute_contract_error(g, contract_name, tx_name, literal_args) ==
    IF ~db_has_contract(g.database, contract_name) THEN "NoSuchContract"
    ELSE IF tx_name \notin DOMAIN ContractFunctions THEN "UndefinedFunction"
    ELSE IF ~ContractFunctions[tx_name].is_public THEN "NonPublicFunction"
    ELSE IF ~literal_args THEN "InterpreterError"
    ELSE "none"

\* Environment::execute_function_as_transaction up to execute_apply
efat_enter(g, make_read_only) ==
    IF make_read_only THEN begin_read_only(g) ELSE begin(g)

\* Environment::execute_function_as_transaction after execute_apply; returns [g, res]
efat_leave(g, make_read_only, result, token_order, asset_order) ==
    IF make_read_only
    THEN [g |-> roll_back(g), res |-> result]
    ELSE handle_tx_result(g, result, token_order, asset_order)

\* OwnedEnvironment::execute_transaction after execute_contract returned; returns
\* [g, res]
execute_transaction_leave(g, return_value, token_order, asset_order) ==
    IF ~return_value.ok
    THEN [g |-> g, res |-> return_value]
    ELSE LET c == owned_commit(g, token_order, asset_order)
         IN IF ~c.res.ok
            THEN c
            ELSE [g |-> c.g, res |-> Ok([value |-> return_value.val,
                                         asset_map |-> c.res.val])]

\* Environment::eval_read_only after eval; returns [g, res]
eval_read_only_leave(g, result) == [g |-> roll_back(g), res |-> result]

InitializeContract(contract_name, initialized) ==
    /\ ~Panicked
    /\ eval_stack = <<>>
    /\ Len(asset_maps) < MaxFrames
    /\ LET i == initialize_contract(GC, contract_name, initialized)
       IN /\ SetGC(i.g)
          /\ call' = [op |-> "initialize_contract", pre |-> GC, res |-> i.res]
    /\ UNCHANGED others

ExecuteTransaction(contract_name, tx_name, literal_args) ==
    /\ ~Panicked
    /\ eval_stack = <<>>
    /\ IF ~is_top_level(GC)
       THEN \* assert!(self.context.is_top_level())
            /\ call' = [op |-> "panic", in |-> "execute_transaction", pre |-> GC]
            /\ UNCHANGED <<asset_maps, read_only, database, opened_ro, eval_stack>>
       ELSE LET g1 == begin(GC)
                e == execute_contract_error(g1, contract_name, tx_name, literal_args)
            IN IF e # "none"
               THEN /\ SetGC(g1)
                    /\ call' = [op |-> "execute_transaction", fn |-> tx_name,
                                pre |-> GC, entered |-> FALSE,
                                body |-> Err("none"), res |-> Err(e)]
                    /\ UNCHANGED eval_stack
               ELSE /\ SetGC(efat_enter(g1, ContractFunctions[tx_name].is_read_only))
                    /\ eval_stack' = Append(eval_stack,
                           Activation("execute_transaction",
                                      ContractFunctions[tx_name].is_read_only, GC, tx_name))
                    /\ call' = Evaluating
    /\ UNCHANGED <<am1, am2, call_stack, contexts, history>>

\* parsed_forms: how many forms parser::parse(program) yields
EvalReadOnly(contract_name, parsed_forms) ==
    /\ ~Panicked
    /\ eval_stack = <<>>
    /\ Len(asset_maps) < MaxFrames
    /\ IF parsed_forms < 1
       THEN /\ call' = [op |-> "eval_read_only", parsed |-> FALSE, pre |-> GC,
                        entered |-> FALSE, res |-> Err("ParseError")]
            /\ UNCHANGED <<asset_maps, read_only, database, opened_ro, eval_stack>>
       ELSE LET g1 == begin(GC)
            IN IF ~db_has_contract(g1.database, contract_name)
               THEN /\ SetGC(g1)
                    /\ call' = [op |-> "eval_read_only", parsed |-> TRUE, pre |-> GC,
                                entered |-> FALSE, res |-> Err("NoSuchContract")]
                    /\ UNCHANGED eval_stack
               ELSE /\ SetGC(g1)
                    /\ eval_stack' = Append(eval_stack,
                           Activation("eval_read_only", FALSE, GC, "none"))
                    /\ call' = Evaluating
    /\ UNCHANGED <<am1, am2, call_stack, contexts, history>>

\* the evaluator writes a variable of the store
EvalDbPut(k, v) ==
    /\ eval_stack # <<>>
    /\ ~is_read_only(GC)
    /\ db_current(database).data[k] # v
    /\ database' = db_put(database, k, v)
    /\ call' = Evaluating
    /\ UNCHANGED <<asset_maps, read_only, opened_ro, eval_stack, am1, am2, call_stack, contexts, history>>

\* the evaluator logs a token transfer
EvalLogTokenTransfer(sender, asset, transfered) ==
    /\ eval_stack # <<>>
    /\ SetGC(log_token_transfer(GC, sender, asset, transfered).g)
    /\ call' = Evaluating
    /\ UNCHANGED <<eval_stack, am1, am2, call_stack, contexts, history>>

\* the evaluator calls a function of a contract (contract-call):
\* execute_function_as_transaction up to execute_apply
EvalCall(make_read_only) ==
    /\ eval_stack # <<>>
    /\ Len(eval_stack) < MaxEval
    /\ Len(asset_maps) < MaxFrames
    /\ SetGC(efat_enter(GC, make_read_only))
    /\ eval_stack' = Append(eval_stack,
           Activation("execute_function_as_transaction", make_read_only, GC, "none"))
    /\ call' = Evaluating
    /\ UNCHANGED <<am1, am2, call_stack, contexts, history>>

\* the evaluator returns result to the handler that called it
EvalReturn(result) ==
    /\ eval_stack # <<>>
    /\ LET a == Last(eval_stack)
       IN \E to \in TopTokenOrders, ao \in TopAssetOrders :
            CASE a.kind = "execute_function_as_transaction" ->
                   LET l == efat_leave(GC, a.make_read_only, result, to, ao)
                   IN /\ SetGC(l.g)
                      /\ call' = [op |-> a.kind, make_read_only |-> a.make_read_only,
                                  pre |-> a.pre, body |-> result, res |-> l.res]
              [] a.kind = "execute_transaction" ->
                   LET l == efat_leave(GC, a.make_read_only, result, to, ao)
                   IN \E to2 \in DrainOrders(Last(l.g.asset_maps).token_map),
                         ao2 \in DrainOrders(Last(l.g.asset_maps).asset_map) :
                        LET t == execute_transaction_leave(l.g, l.res, to2, ao2)
                        IN /\ SetGC(t.g)
                           /\ call' = [op |-> a.kind, fn |-> a.fn, pre |-> a.pre,
                                       entered |-> TRUE, body |-> result, res |-> t.res]
              [] a.kind = "eval_read_only" ->
                   LET l == eval_read_only_leave(GC, result)
                   IN /\ SetGC(l.g)
                      /\ call' = [op |-> a.kind, parsed |-> TRUE, pre |-> a.pre,
                                  entered |-> TRUE, res |-> l.res]
    /\ eval_stack' = Pop(eval_stack)
    /\ UNCHANGED <<am1, am2, call_stack, contexts, history>>

EvalStep ==
    \/ \E k \in DbKeys, v \in DbValues : EvalDbPut(k, v)
    \/ \E s \in LogSlots, n \in LogAmounts : EvalLogTokenTransfer(s[1], s[2], n)
    \/ \E make_read_only \in BOOLEAN : EvalCall(make_read_only)
    \/ \E result \in TxResults : EvalReturn(result)

\* an OwnedEnvironment that initializes contracts and executes transactions
NextTx ==
    \/ \E c \in ContractNames, initialized \in BOOLEAN : InitializeContract(c, initialized)
    \/ \E c \in CalledContracts, f \in CalledFunctions, literal_args \in BOOLEAN :
         ExecuteTransaction(c, f, literal_args)
    \/ EvalStep

SpecTx == Init /\ [][NextTx]_vars

\* Environment::execute_function_as_transaction called on an Environment that
\* is not inside an evaluation (OwnedEnvironment::get_exec_environment), up to
\* execute_apply
ExecuteFunctionAsTransaction(make_read_only) ==
    /\ eval_stack = <<>>
    /\ ~Panicked
    /\ Len(asset_maps) < MaxFrames
    /\ SetGC(efat_enter(GC, make_read_only))
    /\ eval_stack' = <<Activation("execute_function_as_transaction", make_read_only,
                                  GC, "none")>>
    /\ call' = Evaluating
    /\ UNCHANGED <<am1, am2, call_stack, contexts, history>>

\* the same, with read-only queries through Environment::eval_read_only and
\* direct calls of Environment::execute_function_as_transaction
NextEnv ==
    \/ NextTx
    \/ \E c \in CalledContracts, parsed_forms \in {0, 1} : EvalReadOnly(c, parsed_forms)
    \/ \E make_read_only \in BOOLEAN : ExecuteFunctionAsTransaction(make_read_only)

SpecEnv == Init /\ [][NextEnv]_vars

(***************************************************************************)
(* SpecExecute: GlobalContext::execute(f).  The closure f runs with the    *)
(* GlobalContext in its hands: it writes, logs transfers, opens and closes *)
(* frames, calls execute again, and returns a result.                      *)
(***************************************************************************)
ExecuteResults == {Err("RuntimeError"), Ok(IntValue(1))}

\* mutant of execute_leave: the frame is committed also when f has failed
execute_leave_commits_on_error(g, result, token_order, asset_order) ==
    LET c == commit(g, token_order, asset_order)
    IN IF ~result.ok
       THEN [g |-> c.g, res |-> result]
       ELSE IF ~c.res.ok
            THEN [g |-> c.g, res |-> Err(c.res.err)]
            ELSE [g |-> c.g, res |-> result]

\* GlobalContext::execute after f has returned result; requires a frame
\* (roll_back asserts, commit expects); returns [g, res]
execute_leave(g, result, token_order, asset_order) ==
    IF ~result.ok
    THEN [g |-> roll_back(g), res |-> result]
    ELSE LET c == commit(g, token_order, asset_order)
         IN IF ~c.res.ok
            THEN [g |-> c.g, res |-> Err(c.res.err)]
            ELSE [g |-> c.g, res |-> result]

\* what execute finds when it is called: the lengths of the three stacks
Lengths(g) ==
    [depth |-> Len(g.asset_maps), flags |-> Len(g.read_only),
     open |-> Len(g.database.open)]

\* GlobalContext::execute up to the call of f; f may itself call execute
Execute ==
    /\ ~Panicked
    /\ Len(eval_stack) < MaxEval
    /\ Len(asset_maps) < MaxFrames
    /\ SetGC(begin(GC))
    /\ eval_stack' = Append(eval_stack, Activation("execute", FALSE, Lengths(GC), "none"))
    /\ call' = Evaluating
    /\ UNCHANGED <<am1, am2, call_stack, contexts, history>>

\* f opens a frame and does not close it
FBegin ==
    /\ eval_stack # <<>>
    /\ Len(asset_maps) < MaxFrames
    /\ SetGC(begin(GC))
    /\ call' = Evaluating
    /\ UNCHANGED <<eval_stack, am1, am2, call_stack, contexts, history>>

\* f closes a frame, possibly the one execute opened for it
FRollBack ==
    /\ eval_stack # <<>>
    /\ Len(asset_maps) > 0
    /\ SetGC(roll_back(GC))
    /\ call' = Evaluating
    /\ UNCHANGED <<eval_stack, am1, am2, call_stack, contexts, history>>

\* f returns result: the rest of execute.  With no frame left, roll_back's
\* assert! and commit's expect abort the process
ExecuteReturn(result) ==
    /\ eval_stack # <<>>
    /\ IF Len(asset_maps) = 0
       THEN /\ call' = [op |-> "panic"]
            /\ UNCHANGED <<asset_maps, read_only, database, opened_ro>>
       ELSE \E to \in TopTokenOrders, ao \in TopAssetOrders :
              LET l == execute_leave(GC, result, to, ao)
              IN /\ SetGC(l.g)
                 /\ call' = [op |-> "execute", pre |-> Last(eval_stack).pre,
                             at_return |-> GC, body |-> result, res |-> l.res]
    /\ eval_stack' = Pop(eval_stack)
    /\ UNCHANGED <<am1, am2, call_stack, contexts, history>>

NextExecute ==
    \/ Execute
    \/ \E k \in DbKeys, v \in DbValues : ~Panicked /\ EvalDbPut(k, v)
    \/ \E s \in LogSlots, n \in LogAmounts :
         ~Panicked /\ Len(asset_maps) > 0 /\ EvalLogTokenTransfer(s[1], s[2], n)
    \/ ~Panicked /\ FBegin
    \/ ~Panicked /\ FRollBack
    \/ \E result \in ExecuteResults : ~Panicked /\ ExecuteReturn(result)

SpecExecute == Init /\ [][NextExecute]_vars

(***************************************************************************)
(* SpecCallStack: one CallStack under any sequence of insert and remove.   *)
(***************************************************************************)
MaxCalls == 4
FunctionIds == {"f", "g"}

CsInsert(function, track) ==
    /\ ~Panicked
    /\ Len(history) < MaxCalls
    /\ call_stack' = cs_insert(call_stack, function, track)
    /\ history' = Append(history, [op |-> "insert", function |-> function,
                                    track |-> track, outcome |-> "ok"])
    /\ call' = [op |-> "insert", function |-> function, track |-> track,
                pre |-> call_stack]
    /\ UNCHANGED <<asset_maps, read_only, database, opened_ro, eval_stack, am1, am2,
                   contexts>>

\* a remove that panics ends the process: nothing is called after it
CsRemove(function, tracked) ==
    /\ ~Panicked
    /\ Len(history) < MaxCalls
    /\ LET r == cs_remove(call_stack, function, tracked)
       IN /\ call_stack' = r.cs
          /\ history' = Append(history, [op |-> "remove", function |-> function,
                                          track |-> tracked, outcome |-> r.outcome])
          /\ call' = IF r.outcome = "panic" THEN [op |-> "panic"]
                     ELSE [op |-> "remove", function |-> function, track |-> tracked,
                           pre |-> call_stack, outcome |-> r.outcome]
    /\ UNCHANGED <<asset_maps, read_only, database, opened_ro, eval_stack, am1, am2,
                   contexts>>

NextCallStack ==
    \/ \E f \in FunctionIds, track \in BOOLEAN : CsInsert(f, track)
    \/ \E f \in FunctionIds, tracked \in BOOLEAN : CsRemove(f, tracked)

SpecCallStack == Init /\ [][NextCallStack]_vars

(***************************************************************************)
(* SpecDepth: one chain of LocalContexts, each extended from the newest.    *)
(* SpecLookup: a few LocalContexts with variables, extended from any one.  *)
(***************************************************************************)
MaxContexts == 3
VariableNames == {"a", "b"}
VariableValues == {1, 2}

\* the context at position i is nobody's parent
IsLeaf(ctxs, i) == \A j \in 1..Len(ctxs) : ctxs[j].parent # i

\* self.extend() of the context at position i; the child, if any, is the newest
LcExtend(i) ==
    /\ i \in 1..Len(contexts)
    /\ LET r == extend(contexts, i)
       IN /\ contexts' = IF r.ok THEN Append(contexts, r.ctx) ELSE contexts
          /\ call' = [op |-> "extend", self |-> i, depth |-> contexts[i].depth,
                      ok |-> r.ok, err |-> r.err]
    /\ UNCHANGED <<asset_maps, read_only, database, opened_ro, eval_stack, am1, am2,
                   call_stack, history>>

\* the newest context goes out of scope (it is borrowed by no child)
LcDrop ==
    /\ Len(contexts) > 1
    /\ contexts' = Pop(contexts)
    /\ call' = [op |-> "drop"]
    /\ UNCHANGED <<asset_maps, read_only, database, opened_ro, eval_stack, am1, am2,
                   call_stack, history>>

\* variables.insert(name, value) on a context no child borrows
LcBind(i, name, value) ==
    /\ i \in 1..Len(contexts)
    /\ IsLeaf(contexts, i)
    /\ contexts' = [contexts EXCEPT ![i].variables = MapInsert(@, name, value)]
    /\ call' = [op |-> "bind"]
    /\ UNCHANGED <<asset_maps, read_only, database, opened_ro, eval_stack, am1, am2,
                   call_stack, history>>

LcLookupVariable(i, name) ==
    /\ i \in 1..Len(contexts)
    /\ call' = [op |-> "lookup_variable", self |-> i, name |-> name, pre |-> contexts,
                res |-> lookup_variable(contexts, i, name)]
    /\ UNCHANGED <<asset_maps, read_only, database, opened_ro, eval_stack, am1, am2,
                   call_stack, contexts, history>>

NextDepth ==
    \/ LcExtend(Len(contexts))
    \/ LcDrop

SpecDepth == Init /\ [][NextDepth]_vars

NextLookup ==
    \/ \E i \in 1..MaxContexts : Len(contexts) < MaxContexts /\ LcExtend(i)
    \/ LcDrop
    \/ \E i \in 1..MaxContexts, n \in VariableNames, v \in VariableValues : LcBind(i, n, v)
    \/ \E i \in 1..MaxContexts, n \in VariableNames : LcLookupVariable(i, n)

SpecLookup == Init /\ [][NextLookup]_vars

(***************************************************************************)
(* SpecLog: nested frames of one GlobalContext with transfers logged in    *)
(* them.  history keeps, in the order they were logged, the transfers of   *)
(* the outermost frame that no roll_back and no failed commit has dropped, *)
(* each with the depth of the frame that holds it now and whether a commit *)
(* has moved it to a parent frame; once transfers have been dropped, one   *)
(* Discarded record stands in front for all of them, with their number.    *)
(***************************************************************************)
MaxLog == 3
NftSlots == {<<"p1", "n1">>}
Discarded == 0 - 1

\* a transfer logged in the current frame
Logged(token, sender, asset, value) ==
    [depth |-> Len(asset_maps), committed |-> FALSE, token |-> token,
     principal |-> sender, asset |-> asset, value |-> value]

Alive(h) == SelectSeq(h, LAMBDA e : e.depth # Discarded)

\* the number of transfers dropped so far
Dropped(h) == IF h # <<>> /\ h[1].depth = Discarded THEN h[1].value ELSE 0

\* the transfers logged since the outermost begin
LoggedSoFar(h) == Len(Alive(h)) + Dropped(h)

\* the amount of every token transfer logged here
UnitAmounts == {1}

\* the frame at depth d is closed: its transfers move to the frame below
\* (kept) or are dropped
CloseFrame(h, d, kept) ==
    IF kept
    THEN [i \in 1..Len(h) |->
            IF h[i].depth = d
            THEN [h[i] EXCEPT !.depth = d - 1, !.committed = @ \/ d > 1]
            ELSE h[i]]
    ELSE LET dropped == {i \in 1..Len(h) : h[i].depth \in {d, Discarded}}
             n == Cardinality({i \in dropped : h[i].depth = d}) + Dropped(h)
         IN IF dropped = {} THEN h
            ELSE <<[depth |-> Discarded,
                    committed |-> \E i \in dropped : h[i].committed,
                    token |-> FALSE, principal |-> "", asset |-> "", value |-> n]>>
                 \o SelectSeq(h, LAMBDA e : e.depth \notin {d, Discarded})

\* the three stacks of the GlobalContext; opened_ro is not kept here
SetFrames(g) ==
    /\ asset_maps' = g.asset_maps
    /\ read_only' = g.read_only
    /\ database' = g.database

\* begin / begin_read_only; the begin of an outermost frame starts a new history
LgBegin(make_read_only) ==
    /\ Len(asset_maps) < MaxFrames
    /\ SetFrames(IF make_read_only THEN begin_read_only(GC) ELSE begin(GC))
    /\ history' = IF is_top_level(GC) THEN <<>> ELSE history
    /\ call' = [op |-> IF make_read_only THEN "begin_read_only" ELSE "begin",
                depth |-> Len(asset_maps), res |-> Ok(NoValue)]
    /\ UNCHANGED <<opened_ro, eval_stack, am1, am2, call_stack, contexts>>

LgLogTokenTransfer(sender, asset, transfered) ==
    /\ Len(asset_maps) > 0
    /\ LoggedSoFar(history) < MaxLog
    /\ LET l == log_token_transfer(GC, sender, asset, transfered)
       IN /\ SetFrames(l.g)
          /\ history' = IF l.res.ok
                        THEN Append(history, Logged(TRUE, sender, asset, transfered))
                        ELSE history
          /\ call' = [op |-> "log_token_transfer", depth |-> Len(asset_maps),
                      res |-> l.res]
    /\ UNCHANGED <<opened_ro, eval_stack, am1, am2, call_stack, contexts>>

LgLogAssetTransfer(sender, asset, transfered) ==
    /\ Len(asset_maps) > 0
    /\ LoggedSoFar(history) < MaxLog
    /\ SetFrames(log_asset_transfer(GC, sender, asset, transfered))
    /\ history' = Append(history, Logged(FALSE, sender, asset, transfered))
    /\ call' = [op |-> "log_asset_transfer", depth |-> Len(asset_maps),
                res |-> Ok(NoValue)]
    /\ UNCHANGED <<opened_ro, eval_stack, am1, am2, call_stack, contexts>>

LgCommit ==
    /\ Len(asset_maps) > 0
    /\ \E to \in TopTokenOrders, ao \in TopAssetOrders :
         LET c == commit(GC, to, ao)
         IN /\ SetFrames(c.g)
            /\ history' = CloseFrame(history, Len(asset_maps), c.res.ok)
            /\ call' = [op |-> "commit", depth |-> Len(asset_maps), res |-> c.res]
    /\ UNCHANGED <<opened_ro, eval_stack, am1, am2, call_stack, contexts>>

LgRollBack ==
    /\ Len(asset_maps) > 0
    /\ SetFrames(roll_back(GC))
    /\ history' = CloseFrame(history, Len(asset_maps), FALSE)
    /\ call' = [op |-> "roll_back", depth |-> Len(asset_maps), res |-> Ok(NoValue)]
    /\ UNCHANGED <<opened_ro, eval_stack, am1, am2, call_stack, contexts>>

NextLog ==
    \/ \E make_read_only \in BOOLEAN : LgBegin(make_read_only)
    \/ \E s \in LogSlots, n \in UnitAmounts : LgLogTokenTransfer(s[1], s[2], n)
    \/ \E s \in NftSlots, v \in NftValues : LgLogAssetTransfer(s[1], s[2], v)
    \/ LgCommit
    \/ LgRollBack

SpecLog == Init /\ [][NextLog]_vars

(***************************************************************************)
(* Properties.                                                             *)
(***************************************************************************)
\* the token total and the NFT list of an AssetMap at (p, a); absent is 0 / <<>>
TokAt(am, p, a) ==
    IF p \in DOMAIN am.token_map /\ a \in DOMAIN am.token_map[p]
    THEN am.token_map[p][a] ELSE 0

NftAt(am, p, a) ==
    IF p \in DOMAIN am.asset_map /\ a \in DOMAIN am.asset_map[p]
    THEN am.asset_map[p][a] ELSE <<>>

\* some token sum of self and other exceeds the i128 maximum
MergeOverflows(self, other) ==
    \E e \in Entries(other.token_map) :
        TokAt(self, e[1], e[2]) + TokAt(other, e[1], e[2]) > I128_MAX

Depth(g) == Len(g.asset_maps)
OpenDbTransactions(g) == Len(g.database.open)

\* C1: the three stacks always have the same length: |asset_maps| = |read_only|
\* = the number of open database transactions, also after a commit whose merge
\* overflowed; so is_top_level() holds exactly when no database transaction is open
C1_StacksSynchronized ==
    /\ Len(asset_maps) = Len(read_only)
    /\ Len(read_only) = Len(database.open)
    /\ is_top_level(GC) <=> database.open = <<>>

C1_Witness ==
    /\ call.op = "commit"
    /\ ~call.res.ok
    /\ Depth(call.pre) = 2
    /\ Len(asset_maps) = 1 /\ Len(read_only) = 1 /\ Len(database.open) = 1

\* C2: handle_tx_result on a successful result that is not a Response fails with
\* ContractMustReturnBoolean and closes the current frame: one ledger and one
\* read-only flag popped, one database transaction rolled back
C2_NonResponseRollsBack ==
    (call.op = "handle_tx_result" /\ call.arg.ok /\ call.arg.val.tag # "Response")
    => /\ call.res = Err("ContractMustReturnBoolean")
       /\ Len(asset_maps) = Depth(call.pre) - 1
       /\ Len(read_only) = Len(call.pre.read_only) - 1
       /\ Len(database.open) = OpenDbTransactions(call.pre) - 1

\* C8: a commit that closes a frame with a parent and whose merge overflows
\* returns ArithmeticOverflow, still closes the frame, leaves the parent ledger
\* (and every ledger below) as it was, and rolls the database transaction back
C8_CommitOverflow ==
    (/\ call.op = "commit"
     /\ Depth(call.pre) >= 2
     /\ MergeOverflows(call.pre.asset_maps[Depth(call.pre) - 1], Last(call.pre.asset_maps)))
    => /\ call.res = Err("ArithmeticOverflow")
       /\ asset_maps = Pop(call.pre.asset_maps)
       /\ read_only = Pop(call.pre.read_only)
       /\ database = [call.pre.database EXCEPT !.open = Pop(@)]

\* the overflowing frame had written to the store, so committing it would show
C8_Witness ==
    /\ call.op = "commit"
    /\ Depth(call.pre) >= 2
    /\ ~call.res.ok
    /\ Last(call.pre.database.open) # call.pre.database.open[Depth(call.pre) - 1]

\* C9: a successful commit returns Some(ledger) exactly when it closed the
\* outermost frame, the ledger being that frame's; with a parent it returns None
\* and the parent holds the merged totals.  OwnedEnvironment::commit fails with
\* FailedToConstructAssetTable exactly when it closed a nested frame whose
\* merge succeeded
C9_CommitResult ==
    /\ (call.op = "commit" /\ call.res.ok)
       => /\ call.res.val.some <=> asset_maps = <<>>
          /\ call.res.val.some <=> Depth(call.pre) = 1
          /\ call.res.val.some => call.res.val.map = Last(call.pre.asset_maps)
          /\ ~call.res.val.some =>
               \A e \in LogSlots :
                   TokAt(Last(asset_maps), e[1], e[2]) =
                       TokAt(call.pre.asset_maps[Depth(call.pre) - 1], e[1], e[2])
                       + TokAt(Last(call.pre.asset_maps), e[1], e[2])
    /\ call.op = "owned_commit"
       => /\ call.res.err = "FailedToConstructAssetTable"
             <=> /\ Depth(call.pre) >= 2
                 /\ ~MergeOverflows(call.pre.asset_maps[Depth(call.pre) - 1],
                                    Last(call.pre.asset_maps))
          /\ call.res.ok => call.res.val = Last(call.pre.asset_maps)

C9_Witness ==
    /\ call.op = "owned_commit"
    /\ call.res.err = "FailedToConstructAssetTable"
    /\ TokAt(Last(asset_maps), "p1", "t1") = I128_MAX
    /\ TokAt(Last(call.pre.asset_maps), "p1", "t1") = 1

\* C10: is_read_only() holds exactly when some open frame was opened by
\* begin_read_only, and so for every open frame and the frames below it; closing
\* a frame restores the value is_read_only() had before the frame was opened
C10_ReadOnlyInherited ==
    /\ is_read_only(GC) <=> \E i \in 1..Len(opened_ro) : opened_ro[i]
    /\ \A i \in 1..Len(read_only) :
           read_only[i] <=> \E j \in 1..i : j <= Len(opened_ro) /\ opened_ro[j]
    /\ call.op \in {"commit", "roll_back"}
       => is_read_only(GC) =
              (Len(call.pre.read_only) >= 2
               /\ call.pre.read_only[Len(call.pre.read_only) - 1])

\* a frame opened by begin inside a read-only frame, itself inside a writable one
C10_Witness ==
    /\ call.op = "begin"
    /\ opened_ro = <<FALSE, TRUE, FALSE>>
    /\ is_read_only(GC)

(***************************************************************************)
(* Properties of OwnedEnvironment and Environment (SpecTx, SpecEnv).       *)
(***************************************************************************)
\* C3: every execute_transaction call returns with the GlobalContext at top
\* level, no ledger frame and no database transaction left open, whether it
\* succeeds or fails; so the assertion at its start never fails
C3_TransactionEndsAtTopLevel ==
    /\ call.op = "execute_transaction"
       => (is_top_level(GC) /\ database.open = <<>>)
    /\ ~Panicked

\* C4: execute_transaction on a public, non-read-only function whose body returns
\* a value that is not a Response yields ContractMustReturnBoolean and leaves the
\* database unchanged: a follow-up read sees the values persisted before the call
C4_NonResponseLeavesDatabase ==
    (/\ call.op = "execute_transaction"
     /\ call.entered
     /\ ~ContractFunctions[call.fn].is_read_only
     /\ call.body.ok
     /\ call.body.val.tag # "Response")
    => /\ call.res = Err("ContractMustReturnBoolean")
       /\ db_current(database) = call.pre.database.persisted
       /\ database.persisted = call.pre.database.persisted

\* C5: eval_read_only, once the program has parsed to at least one form, rolls
\* back the frame it opened on every outcome: the frame depth and the open
\* database transactions are those before the call, and no write is kept
C5_ReadOnlyAlwaysRollsBack ==
    (call.op = "eval_read_only" /\ call.parsed)
    => /\ Depth(GC) = Depth(call.pre)
       /\ OpenDbTransactions(GC) = OpenDbTransactions(call.pre)
       /\ database = call.pre.database

(***************************************************************************)
(* Properties of AssetMap::commit_other (SpecMerge).                       *)
(***************************************************************************)
\* C6: when some token sum overflows, commit_other returns ArithmeticOverflow,
\* whatever the order of visit; and whenever it fails, the token map and the NFT
\* map of self are exactly what they were before the call
C6_FailedMergeLeavesSelf ==
    call.op = "commit_other"
    => /\ MergeOverflows(call.pre_self, call.other)
          => (~call.ok /\ call.err = "ArithmeticOverflow")
       /\ ~call.ok
          => /\ am1.token_map = call.pre_self.token_map
             /\ am1.asset_map = call.pre_self.asset_map

\* the overflow is met after an entry that does not overflow was visited
C6_Witness ==
    /\ call.op = "commit_other"
    /\ ~call.ok
    /\ Len(call.token_order) = 2
    /\ TokAt(call.pre_self, call.token_order[1][1], call.token_order[1][2])
         + TokAt(call.other, call.token_order[1][1], call.token_order[1][2]) <= I128_MAX
    /\ Entries(call.pre_self.token_map) # {}

\* C7: when commit_other succeeds, every token total of self is its total before
\* plus other's (absent counting as 0), every NFT list is the list before
\* followed by other's, and the entries other does not mention are unchanged
C7_MergeSums ==
    (call.op = "commit_other" /\ call.ok)
    => /\ \A e \in Slots :
            /\ TokAt(am1, e[1], e[2]) =
                   TokAt(call.pre_self, e[1], e[2]) + TokAt(call.other, e[1], e[2])
            /\ NftAt(am1, e[1], e[2]) =
                   NftAt(call.pre_self, e[1], e[2]) \o NftAt(call.other, e[1], e[2])
       /\ Entries(am1.token_map) =
              Entries(call.pre_self.token_map) \cup Entries(call.other.token_map)
       /\ Entries(am1.asset_map) =
              Entries(call.pre_self.asset_map) \cup Entries(call.other.asset_map)

\* both maps hold a list for the same (principal, asset), and a token is summed
C7_Witness ==
    /\ call.op = "commit_other"
    /\ call.ok
    /\ \E e \in Slots :
         /\ NftAt(call.pre_self, e[1], e[2]) # <<>>
         /\ NftAt(call.other, e[1], e[2]) # <<>>
         /\ NftAt(call.pre_self, e[1], e[2]) # NftAt(call.other, e[1], e[2])
    /\ \E e \in Slots : TokAt(call.other, e[1], e[2]) > 0

\* the frame that was current in pre is gone and nothing of it is left: the
\* ledgers below and the database as they were before the frame was opened
FrameRolledBack(pre) ==
    /\ asset_maps = Pop(pre.asset_maps)
    /\ read_only = Pop(pre.read_only)
    /\ database.open = Pop(pre.database.open)
    /\ database.persisted = pre.database.persisted

\* the frame that was current in pre is gone and its effects are kept: the
\* database reads as it did inside the frame, and the parent ledger (if any)
\* holds the sums of its own totals and the frame's
FrameCommitted(pre) ==
    /\ Len(asset_maps) = Depth(pre) - 1
    /\ read_only = Pop(pre.read_only)
    /\ Len(database.open) = OpenDbTransactions(pre) - 1
    /\ db_current(database) = db_current(pre.database)
    /\ Depth(pre) >= 2 =>
         \A e \in LogSlots :
            TokAt(Last(asset_maps), e[1], e[2])
              = TokAt(pre.asset_maps[Depth(pre) - 1], e[1], e[2])
                + TokAt(Last(pre.asset_maps), e[1], e[2])

HandledResponse ==
    call.op = "handle_tx_result" /\ call.arg.ok /\ call.arg.val.tag = "Response"

\* the commit of the current frame of pre would overflow in its merge
CommitOverflows(pre) ==
    Depth(pre) >= 2
    /\ MergeOverflows(pre.asset_maps[Depth(pre) - 1], Last(pre.asset_maps))

\* C11 as stated: handle_tx_result on a successful Response closes exactly one
\* frame, by commit when committed is true and by roll_back when it is false,
\* and in either case returns the same Response value
C11_Original ==
    HandledResponse
    => /\ call.res = Ok(call.arg.val)
       /\ Len(asset_maps) = Depth(call.pre) - 1
       /\ Len(read_only) = Len(call.pre.read_only) - 1
       /\ Len(database.open) = OpenDbTransactions(call.pre) - 1

\* C11: handle_tx_result on a successful Response closes exactly one frame, by
\* commit when committed is true and by roll_back when it is false; it returns
\* the same Response value, except that a commit whose merge overflows makes it
\* return ArithmeticOverflow (the frame is then closed with nothing kept)
C11_ResponseClosesOneFrame ==
    HandledResponse
    => IF ~call.arg.val.committed
       THEN call.res = Ok(call.arg.val) /\ FrameRolledBack(call.pre)
       ELSE IF CommitOverflows(call.pre)
            THEN call.res = Err("ArithmeticOverflow") /\ FrameRolledBack(call.pre)
            ELSE call.res = Ok(call.arg.val) /\ FrameCommitted(call.pre)

C11_Witness ==
    /\ HandledResponse
    /\ call.arg.val.committed
    /\ call.res = Ok(call.arg.val)
    /\ Depth(call.pre) = 2
    /\ \E e \in LogSlots :
         /\ TokAt(call.pre.asset_maps[1], e[1], e[2]) > 0
         /\ TokAt(Last(call.pre.asset_maps), e[1], e[2]) > 0
    /\ db_current(call.pre.database) # call.pre.database.open[1]

ReadOnlyCallReturned ==
    call.op = "execute_function_as_transaction" /\ call.make_read_only

\* C12: execute_function_as_transaction on a read-only function keeps
\* is_read_only() true while the function is applied, returns the application's
\* result unchanged, and leaves the frame depth, the ledgers and the database
\* as they were before the call: its frame has been rolled back
C12_ReadOnlyCallRollsBack ==
    /\ (\E i \in 1..Len(eval_stack) :
           /\ eval_stack[i].kind = "execute_function_as_transaction"
           /\ eval_stack[i].make_read_only)
       => is_read_only(GC)
    /\ ReadOnlyCallReturned
       => /\ call.res = call.body
          /\ Len(asset_maps) = Depth(call.pre)
          /\ asset_maps = call.pre.asset_maps
          /\ read_only = call.pre.read_only
          /\ database = call.pre.database

\* how many calls of history are op(function, TRUE) with the given outcome
RECURSIVE CountCalls(_, _, _, _)
CountCalls(h, op, function, outcome) ==
    IF h = <<>> THEN 0
    ELSE (IF /\ Last(h).op = op /\ Last(h).function = function
             /\ Last(h).track /\ Last(h).outcome = outcome
          THEN 1 ELSE 0)
         + CountCalls(Pop(h), op, function, outcome)

\* the tracked inserts of function not yet matched by a remove(function, true)
UnmatchedTracked(function) ==
    CountCalls(history, "insert", function, "ok")
    - CountCalls(history, "remove", function, "ok")

\* C13: contains(id) is true exactly when some insert(id, true) has not been
\* matched by a later remove(id, true); so it is still true after two tracked
\* inserts of id and one remove
C13_ContainsIffUnmatched ==
    ~Panicked
    => \A f \in FunctionIds :
         cs_contains(call_stack, f) <=> UnmatchedTracked(f) > 0

\* C14: while no call has aborted, every id of the tracked set occurs in the stack
C14_TrackedOnStack ==
    ~Panicked
    => \A f \in call_stack.set :
         \E i \in 1..cs_depth(call_stack) : call_stack.stack[i] = f

\* depth = 0 iff there is no parent, depth = parent.depth + 1 otherwise
DepthFollowsParent(c) ==
    /\ c.depth = 0 <=> c.parent = 0
    /\ c.parent # 0 => c.depth = contexts[c.parent].depth + 1

\* C15 as stated: every LocalContext reachable from new() by successful extend()
\* calls has depth = 0 iff it has no parent, depth = parent.depth + 1 otherwise,
\* and depth < MAX_CONTEXT_DEPTH
C15_Original ==
    \A i \in 1..Len(contexts) :
        DepthFollowsParent(contexts[i]) /\ contexts[i].depth < MAX_CONTEXT_DEPTH

\* C15: every LocalContext reachable from new() by successful extend() calls
\* has depth = 0 iff it has no parent, depth = parent.depth + 1 otherwise, and
\* depth <= MAX_CONTEXT_DEPTH
C15_DepthInvariant ==
    \A i \in 1..Len(contexts) :
        DepthFollowsParent(contexts[i]) /\ contexts[i].depth <= MAX_CONTEXT_DEPTH

C15_Witness ==
    /\ call.op = "extend" /\ call.ok
    /\ Last(contexts).depth = MAX_CONTEXT_DEPTH
    /\ Last(contexts).parent = Len(contexts) - 1

\* C16: extend() fails, with MaxContextDepthReached, exactly when the context's
\* depth is MAX_CONTEXT_DEPTH; a failed extend creates nothing; in a chain from
\* the root the first MAX_CONTEXT_DEPTH calls succeed and the next one fails
C16_ExtendFailsAtMax ==
    call.op = "extend"
    => /\ ~call.ok <=> call.depth = MAX_CONTEXT_DEPTH
       /\ ~call.ok => call.err = "MaxContextDepthReached"
       /\ call.ok <=> Len(contexts) = call.self + 1
       /\ ~call.ok <=> call.self = MAX_CONTEXT_DEPTH + 1

C16_Witness ==
    /\ call.op = "extend" /\ ~call.ok
    /\ Len(contexts) = MAX_CONTEXT_DEPTH + 1
    /\ \A i \in 2..Len(contexts) : contexts[i].parent = i - 1

\* the contexts of the parent chain of the context at position i, itself included
RECURSIVE ParentChain(_, _)
ParentChain(ctxs, i) ==
    {i} \cup (IF ctxs[i].parent = 0 THEN {} ELSE ParentChain(ctxs, ctxs[i].parent))

\* the contexts of the chain of i that bind name
Binders(ctxs, i, name) ==
    {j \in ParentChain(ctxs, i) : name \in DOMAIN ctxs[j].variables}

\* C18: lookup_variable(n) returns the value n has in the nearest context of
\* the parent chain that binds n (the context itself first), none when no
\* context of the chain binds n, and changes no context
C18_LookupNearestBinding ==
    call.op = "lookup_variable"
    => /\ contexts = call.pre
       /\ LET binders == Binders(contexts, call.self, call.name)
          IN IF binders = {}
             THEN call.res = NoVariable
             ELSE \E j \in binders :
                    /\ \A k \in binders : contexts[k].depth <= contexts[j].depth
                    /\ call.res = SomeVariable(contexts[j].variables[call.name])

C18_Witness ==
    /\ call.op = "lookup_variable"
    /\ call.res.some
    /\ call.name \notin DOMAIN contexts[call.self].variables
    /\ \E j \in Binders(contexts, call.self, call.name) :
         contexts[j].variables[call.name] # call.res.value

\* C17: add_token_transfer with amount >= 0 whose sum with the current total
\* exceeds the i128 maximum fails with ArithmeticOverflow and leaves the ledger
\* as it was; otherwise it sets the total to current + amount and nothing else.
\* After any sequence of add_token_transfer and commit_other every stored token
\* total lies in [0, i128 max]
C17_TokenTotalsChecked ==
    /\ \A am \in {am1, am2} : \A e \in Entries(am.token_map) :
         am.token_map[e[1]][e[2]] \in 0..I128_MAX
    /\ call.op = "add_token_transfer"
       => LET current == TokAt(call.pre_self, call.principal, call.asset)
              post == IF call.which = 1 THEN am1 ELSE am2
          IN /\ call.amount >= 0
             /\ IF current + call.amount > I128_MAX
                THEN /\ ~call.ok /\ call.err = "ArithmeticOverflow"
                     /\ post = call.pre_self
                ELSE /\ call.ok
                     /\ <<call.principal, call.asset>> \in Entries(post.token_map)
                     /\ post.token_map[call.principal][call.asset]
                          = current + call.amount
                     /\ post.asset_map = call.pre_self.asset_map
                     /\ \A e \in Slots \ {<<call.principal, call.asset>>} :
                          /\ TokAt(post, e[1], e[2]) = TokAt(call.pre_self, e[1], e[2])
                          /\ e \in Entries(post.token_map)
                               <=> e \in Entries(call.pre_self.token_map)

C17_Witness ==
    /\ call.op = "add_token_transfer"
    /\ ~call.ok
    /\ call.amount < I128_MAX
    /\ Cardinality(Entries(call.pre_self.token_map)) >= 2

\* the surviving transfers of history of one kind for (principal, asset), in
\* the order they were logged
SurvivingValues(token, principal, asset) ==
    LET IsOne(e) == /\ e.depth # Discarded
                    /\ e.token = token /\ e.principal = principal /\ e.asset = asset
        sel == SelectSeq(history, IsOne)
    IN [i \in 1..Len(sel) |-> sel[i].value]

RECURSIVE SeqSum(_)
SeqSum(q) == IF q = <<>> THEN 0 ELSE Last(q) + SeqSum(Pop(q))

\* how many times v occurs in q
Occurrences(q, v) == Cardinality({i \in 1..Len(q) : q[i] = v})

\* the commit of the outermost frame has just returned
OutermostCommitReturned == call.op = "commit" /\ call.depth = 1

\* C19: the ledger returned by the outermost commit contains exactly the
\* transfers that survive, i.e. those logged in frames committed together with
\* all their enclosing frames: nothing of a frame that was rolled back or of a
\* frame nested inside it; each token total is the sum of the surviving amounts
C19_LedgerHoldsSurvivors ==
    OutermostCommitReturned
    => /\ call.res.ok /\ call.res.val.some
       /\ LET ledger == call.res.val.map
          IN /\ \A e \in Entries(ledger.token_map) : e \in LogSlots
             /\ \A e \in Entries(ledger.asset_map) : e \in NftSlots
             /\ \A e \in LogSlots :
                  /\ TokAt(ledger, e[1], e[2]) = SeqSum(SurvivingValues(TRUE, e[1], e[2]))
                  /\ e \in Entries(ledger.token_map)
                       <=> SurvivingValues(TRUE, e[1], e[2]) # <<>>
             /\ \A e \in NftSlots :
                  /\ \A v \in NftValues :
                       Occurrences(NftAt(ledger, e[1], e[2]), v)
                         = Occurrences(SurvivingValues(FALSE, e[1], e[2]), v)
                  /\ e \in Entries(ledger.asset_map)
                       <=> SurvivingValues(FALSE, e[1], e[2]) # <<>>

\* an outermost commit that returns a transfer logged in a nested frame, after
\* transfers of a frame that had committed were dropped with an enclosing frame
C19_Witness ==
    /\ OutermostCommitReturned
    /\ Dropped(history) > 0 /\ history[1].committed
    /\ \E j \in 2..Len(history) : history[j].committed /\ history[j].token

\* C20: in the ledger returned by the outermost commit the NFT list of each
\* (principal, asset) holds the surviving log_asset_transfer values in the
\* order in which they were logged
C20_NftOrderPreserved ==
    OutermostCommitReturned
    => /\ call.res.ok /\ call.res.val.some
       /\ \A e \in NftSlots :
            NftAt(call.res.val.map, e[1], e[2]) = SurvivingValues(FALSE, e[1], e[2])

\* the outermost commit returns three values, not all equal: the first and the
\* last logged in the outermost frame, the second in a child frame in between
C20_Witness ==
    /\ OutermostCommitReturned
    /\ \E e \in NftSlots :
         LET l == NftAt(call.res.val.map, e[1], e[2])
         IN Len(l) = 3 /\ l[1] # l[2] /\ l[2] = l[3]
    /\ Len(history) = 3
    /\ ~history[1].committed /\ history[2].committed /\ ~history[3].committed

\* C21: remove(id, tracked) returns a recoverable error when the stack is empty
\* or its top differs from id, and a failed remove leaves the call stack as it
\* was: the same depth, stack sequence and tracked set
C21_FailedRemoveChangesNothing ==
    call.op = "remove"
    => /\ (call.pre.stack = <<>> \/ Last(call.pre.stack) # call.function)
          => call.outcome = "err"
       /\ call.outcome = "err"
          => /\ cs_depth(call_stack) = cs_depth(call.pre)
             /\ call_stack.stack = call.pre.stack
             /\ call_stack.set = call.pre.set

\* execute has returned, and f had left the frame depth as it found it: one
\* more than when execute was called
ExecuteReturnedBalanced ==
    call.op = "execute" /\ Depth(call.at_return) = call.pre.depth + 1

\* C22: when f leaves the frame depth as it found it, execute(f) closes the
\* frame exactly once: by roll_back when f failed, returning f's error; by
\* commit when f succeeded, returning f's value or the commit's overflow error;
\* the frame depth and the number of open database transactions after execute
\* are those before it
C22_ExecuteClosesItsFrame ==
    ExecuteReturnedBalanced
    => /\ Len(asset_maps) = call.pre.depth
       /\ Len(read_only) = call.pre.flags
       /\ Len(database.open) = call.pre.open
       /\ IF ~call.body.ok
          THEN call.res = call.body /\ FrameRolledBack(call.at_return)
          ELSE IF CommitOverflows(call.at_return)
               THEN /\ call.res = Err("ArithmeticOverflow")
                    /\ FrameRolledBack(call.at_return)
               ELSE call.res = call.body /\ FrameCommitted(call.at_return)

\* a nested execute whose f wrote and logged, then failed
C22_Witness ==
    /\ ExecuteReturnedBalanced
    /\ ~call.body.ok
    /\ call.pre.depth >= 1
    /\ db_current(call.at_return.database) # db_current(database)
    /\ \E e \in LogSlots : TokAt(Last(call.at_return.asset_maps), e[1], e[2]) > 0

\* no principal of the AssetMap has an empty inner map, no NFT list is empty
NoEmptyEntry(am) ==
    /\ \A p \in DOMAIN am.token_map : DOMAIN am.token_map[p] # {}
    /\ \A p \in DOMAIN am.asset_map :
         /\ DOMAIN am.asset_map[p] # {}
         /\ \A a \in DOMAIN am.asset_map[p] : am.asset_map[p][a] # <<>>

\* C23: after any sequence of add_asset_transfer, add_token_transfer and
\* commit_other, failed ones included, every principal that is a key of the
\* token map or of the NFT map has a non-empty inner map, and every NFT list
\* stored is non-empty
C23_NoEmptyInnerMaps ==
    NoEmptyEntry(am1) /\ NoEmptyEntry(am2)

\* a merge has just given self a principal it did not have, in both maps
C23_Witness ==
    /\ call.op = "commit_other" /\ call.ok
    /\ DOMAIN am1.token_map \ DOMAIN call.pre_self.token_map # {}
    /\ DOMAIN am1.asset_map \ DOMAIN call.pre_self.asset_map # {}

=============================================================================
